---- MODULE Spec2Model ----
(***************************************************************************)
(* Model of RigidMultiblobsWall:                                           *)
(*   - constrained_integrator.py : class ConstrainedIntegrator             *)
(*   - multi_bodies/multi_bodies_functions.py : blob and body forces       *)
(*                                                                         *)
(* Spec       drives one ConstrainedIntegrator object: construction, then  *)
(*            TimeStep and ApplyMobility calls.                            *)
(* SpecForces calls the force functions on a fixed set of bodies / blobs.  *)
(***************************************************************************)
EXTENDS Integers, Sequences, FiniteSets, TLC

VARIABLES
  phase,         \* "new" | "ok" | "exited" (sys.exit) | "raised" (NotImplementedError)
  mobility,      \* self.mobility
  dim,           \* self.dim
  scheme,        \* self.scheme
  current_time,  \* self.current_time
  last,          \* record of the last method call and how it ended
  numSteps,      \* history: number of TimeStep calls that returned
  sumDt,         \* history: sum of dt over the TimeStep calls that returned
  bodies,        \* list of bodies handed to the force functions
  r_vectors,     \* blob positions, one 3-vector per blob
  fres           \* record of the last force-function call and its result

vars == <<phase, mobility, dim, scheme, current_time, last, numSteps, sumDt,
          bodies, r_vectors, fres>>

ivars == <<phase, mobility, dim, scheme, current_time, last, numSteps, sumDt>>
fvars == <<bodies, r_vectors, fres>>

----------------------------------------------------------------------------
(* Bounds of the model *)

MaxDim == 2        \* mobility matrices have at most MaxDim rows
MaxSteps == 2      \* at most MaxSteps TimeStep calls are followed
MaxBodies == 2     \* at most MaxBodies bodies

BlobCounts == {0, 1, 2}              \* numbers of blobs a body may have

Entries == {1, 2}                    \* force entries
DtValues == {-1, 0, 1, 2}            \* time step sizes tried
Schemes == {"RFD", "EULER", "FOO"}   \* scheme strings tried

SeqsUpTo(S, n) == UNION {[1..k -> S] : k \in 0..n}

\* the mobility with rows of the given lengths: 2 on the diagonal, 1 elsewhere
\* (symmetric positive definite when it is square)
MobilityOfShape(lens) ==
  [j \in 1..Len(lens) |-> [k \in 1..lens[j] |-> IF j = k THEN 2 ELSE 1]]

\* rows may be longer or shorter than the number of rows, and ragged
Mobilities == {MobilityOfShape(lens) : lens \in SeqsUpTo(0..(MaxDim + 1), MaxDim)}
Forces == SeqsUpTo(Entries, MaxDim + 1)

Unset == "unset"   \* an attribute that was never assigned

----------------------------------------------------------------------------
(* constrained_integrator.py *)

\* faulty variant: only the first row's length is compared with dim
FirstRowOnly(m) == Len(m) = 0 \/ Len(m[1]) = Len(m)

\* the loop at lines 26-30 finds no row whose length differs from dim
IsSquare(m) == \A k \in 1..Len(m) : Len(m[k]) = Len(m)

\* scheme in ["RFD", "EULER"]
SchemeRecognized(s) == s \in {"RFD", "EULER"}

\* the record kept of a call: its arguments, the step routines it ran, how it ended
NoCall == [op |-> "none", schemeArg |-> "", dt |-> 0, force |-> <<>>, ran |-> <<>>,
           outcome |-> "none", velocity |-> <<>>]

\* __init__(surface_function, mobility, scheme)
Construct(m, s) ==
  /\ phase = "new"
  /\ mobility' = m
  /\ dim' = Len(m)
  /\ IF ~IsSquare(m)
       THEN \* sys.exit() inside the row loop: nothing after it is assigned
            /\ phase' = "exited"
            /\ current_time' = Unset
            /\ scheme' = Unset
            /\ last' = [NoCall EXCEPT !.op = "__init__", !.schemeArg = s,
                                      !.outcome = "SystemExit"]
       ELSE /\ current_time' = 0
            /\ IF ~SchemeRecognized(s)
                 THEN /\ phase' = "raised"
                      /\ scheme' = Unset
                      /\ last' = [NoCall EXCEPT !.op = "__init__", !.schemeArg = s,
                                                !.outcome = "NotImplementedError"]
                 ELSE /\ phase' = "ok"
                      /\ scheme' = s
                      /\ last' = [NoCall EXCEPT !.op = "__init__", !.schemeArg = s,
                                                !.outcome = "returned"]
  /\ UNCHANGED <<numSteps, sumDt, bodies, r_vectors, fres>>

\* EulerTimeStep(dt): pass
EulerTimeStep(dt) == UNCHANGED <<mobility, dim, scheme, current_time>>

\* RFDTimeStep(dt): pass
RFDTimeStep(dt) == UNCHANGED <<mobility, dim, scheme, current_time>>

\* faulty variant: the two branches of TimeStep swapped
DispatchSwapped(s) ==
  IF s = "RFD" THEN "EulerTimeStep" ELSE IF s = "EULER" THEN "RFDTimeStep" ELSE "exit"

\* the if / elif / else of TimeStep
Dispatch(s) ==
  IF s = "RFD" THEN "RFDTimeStep" ELSE IF s = "EULER" THEN "EulerTimeStep" ELSE "exit"

\* TimeStep(dt)
TimeStep(dt) ==
  /\ phase = "ok"
  /\ numSteps < MaxSteps
  /\ LET d == Dispatch(scheme) IN
       IF d = "RFDTimeStep"
         THEN /\ RFDTimeStep(dt)
              /\ phase' = phase
              /\ last' = [NoCall EXCEPT !.op = "TimeStep", !.dt = dt,
                                        !.ran = <<"RFDTimeStep">>, !.outcome = "returned"]
              /\ numSteps' = numSteps + 1
              /\ sumDt' = sumDt + dt
       ELSE IF d = "EulerTimeStep"
         THEN /\ EulerTimeStep(dt)
              /\ phase' = phase
              /\ last' = [NoCall EXCEPT !.op = "TimeStep", !.dt = dt,
                                        !.ran = <<"EulerTimeStep">>, !.outcome = "returned"]
              /\ numSteps' = numSteps + 1
              /\ sumDt' = sumDt + dt
         ELSE \* print "Should not get here in TimeStep."; sys.exit()
              /\ phase' = "exited"
              /\ last' = [NoCall EXCEPT !.op = "TimeStep", !.dt = dt,
                                        !.outcome = "SystemExit"]
              /\ UNCHANGED <<mobility, dim, scheme, current_time, numSteps, sumDt>>
  /\ UNCHANGED fvars

\* the module imports only sys: the name zeros is bound nowhere
ZerosDefined == FALSE

RECURSIVE RowDot(_, _, _, _)
\* for k in range(self.dim): velocity[j] += self.mobility[j][k]*force[k]
RowDot(row, force, k, acc) ==
  IF k > Len(row) THEN acc
  ELSE RowDot(row, force, k + 1, acc + row[k] * force[k])

\* the body of ApplyMobility: its outcome and the velocity it returns
ApplyMobilityResult(m, n, force) ==
  IF ~ZerosDefined
    THEN [outcome |-> "NameError", velocity |-> <<>>]     \* velocity = zeros(self.dim)
  ELSE IF n > 0 /\ Len(force) < n
    THEN [outcome |-> "IndexError", velocity |-> <<>>]    \* force[k] past the end
  ELSE [outcome |-> "returned",
        velocity |-> [j \in 1..n |-> RowDot(m[j], force, 1, 0)]]

\* ApplyMobility(force)
ApplyMobility(force) ==
  /\ phase = "ok"
  /\ LET r == ApplyMobilityResult(mobility, dim, force) IN
       last' = [NoCall EXCEPT !.op = "ApplyMobility", !.force = force,
                              !.outcome = r.outcome, !.velocity = r.velocity]
  /\ UNCHANGED <<phase, mobility, dim, scheme, current_time, numSteps, sumDt>>
  /\ UNCHANGED fvars


----------------------------------------------------------------------------
(* multi_bodies/multi_bodies_functions.py *)

\* keyword arguments handed to the force functions, and blob_mass = 1.0
G == 1
RepulsionStrengthWall == 6
DebyeLengthWall == 1
RepulsionStrength == 12
DebyeLength == 1
BlobMass == 1
BlobRadius == 1

\* blob positions tried: every blob is above the wall, h > blob_radius
Positions == {<<0, 0, 2>>, <<1, 0, 2>>, <<0, 0, 3>>}

\* what b.calc_rot_matrix() hands back for a body of n blobs: a (3n) x 3
\* matrix, blob i contributing the cross-product block of the offset (i, 1, 0)
RotOf(n) ==
  [row \in 1..(3 * n) |->
     LET i == ((row - 1) \div 3) + 1
         c == ((row - 1) % 3) + 1
     IN  IF c = 1 THEN <<0, 0, -1>>
         ELSE IF c = 2 THEN <<0, 0, i>>
         ELSE <<1, -i, 0>>]

MkBody(n) == [Nblobs |-> n, blob_radius |-> BlobRadius,
              blob_masses |-> [i \in 1..n |-> i], rot |-> RotOf(n)]

BodyLists == SeqsUpTo({MkBody(n) : n \in BlobCounts}, MaxBodies)

RECURSIVE TotalBlobs(_)
TotalBlobs(bs) == IF bs = <<>> THEN 0 ELSE Head(bs).Nblobs + TotalBlobs(Tail(bs))

\* a numpy 3-vector of floats: finite components, or NaN in every component
V(x) == [nan |-> FALSE, x |-> x]
NaNVec == [nan |-> TRUE, x |-> <<0, 0, 0>>]
Zero3 == V(<<0, 0, 0>>)

VAdd(a, b) ==
  IF a.nan \/ b.nan THEN NaNVec
  ELSE V(<<a.x[1] + b.x[1], a.x[2] + b.x[2], a.x[3] + b.x[3]>>)

VSub(a, b) ==
  IF a.nan \/ b.nan THEN NaNVec
  ELSE V(<<a.x[1] - b.x[1], a.x[2] - b.x[2], a.x[3] - b.x[3]>>)

\* np.zeros((n, 3))
Zeros(n) == [i \in 1..n |-> Zero3]

\* a += b on arrays of shape (n, 3)
ArrAdd(a, b) == [i \in 1..Len(a) |-> VAdd(a[i], b[i])]

\* default_zero_r_vectors(r_vectors)
default_zero_r_vectors(rv) == Zeros(Len(rv))

\* the wall term of the force on one blob at distance d = h - blob_radius > 0,
\* e * (d / b + 1) * exp(-d / b) / d**2, in whole numbers (exp factor dropped)
WallRepulsion(d) ==
  (RepulsionStrengthWall * (d + DebyeLengthWall)) \div (DebyeLengthWall * d * d)

\* blob_external_force(r_vectors, blob_mass, blob_radius, ...)
blob_external_force(r, blob_mass, blob_radius) ==
  VAdd(VAdd(Zero3, V(<<0, 0, -(G * blob_mass)>>)),
       V(<<0, 0, WallRepulsion(r[3] - blob_radius)>>))

\* calc_one_blob_forces(r_vectors, blob_radius, blob_mass)
calc_one_blob_forces(rv, blob_radius, blob_mass) ==
  [blob \in 1..Len(rv) |->
     VAdd(Zero3, blob_external_force(rv[blob], blob_mass, blob_radius))]

\* blob_blob_force(r): -((eps/b) + (eps/r_norm)) * exp(-r_norm/b) * r / r_norm**2.
\* r_norm = 0 divides by zero in floating point and gives NaN in every
\* component; otherwise a negative multiple of r (whole numbers, exp dropped).
blob_blob_force(r) ==
  LET n2 == r[1] * r[1] + r[2] * r[2] + r[3] * r[3]
      radial == ((RepulsionStrength \div DebyeLength) + RepulsionStrength) \div n2
  IN  IF n2 = 0 THEN NaNVec
      ELSE V(<<-(radial * r[1]), -(radial * r[2]), -(radial * r[3])>>)

\* force_blobs[i] += force
AddToI(fi, force) == VAdd(fi, force)

\* faulty variant: force_blobs[j] += force
AddToJ(fj, force) == VAdd(fj, force)

\* force_blobs[j] -= force
SubFromJ(fj, force) == VSub(fj, force)

RECURSIVE PairLoop(_, _, _, _, _)
\* for i in range(Nblobs-1): for j in range(i+1, Nblobs): ...
\* (indices from 1; pairs lists the (i, j) visited, in order)
PairLoop(rv, i, j, fb, pairs) ==
  IF i > Len(rv) - 1 THEN [force_blobs |-> fb, pairs |-> pairs]
  ELSE IF j > Len(rv) THEN PairLoop(rv, i + 1, i + 2, fb, pairs)
  ELSE LET r == <<rv[j][1] - rv[i][1], rv[j][2] - rv[i][2], rv[j][3] - rv[i][3]>>
           force == blob_blob_force(r)
       IN  PairLoop(rv, i, j + 1,
                    [fb EXCEPT ![i] = AddToI(fb[i], force),
                               ![j] = SubFromJ(fb[j], force)],
                    Append(pairs, <<i, j>>))

\* calc_blob_blob_forces_python(r_vectors)
calc_blob_blob_forces_python(rv) == PairLoop(rv, 1, 2, Zeros(Len(rv)), <<>>)

\* set_blob_blob_forces(implementation), for the implementations in this file
set_blob_blob_forces(implementation, rv) ==
  IF implementation = "None" THEN default_zero_r_vectors(rv)
  ELSE calc_blob_blob_forces_python(rv).force_blobs

\* a[lo:hi] on a list (Python slice, indices from 0, clipped to the list)
Slice(a, lo, hi) ==
  LET l == IF lo > Len(a) THEN Len(a) ELSE lo
      h == IF hi > Len(a) THEN Len(a) ELSE hi
  IN  SubSeq(a, l + 1, h)

RECURSIVE PySum(_, _)
\* sum(rows): the rows added one after the other, starting from 0
PySum(rows, acc) ==
  IF rows = <<>> THEN acc ELSE PySum(Tail(rows), VAdd(acc, Head(rows)))

RECURSIVE DotCol(_, _, _, _, _)
\* one component of np.dot(R.T, flat): sum over i of R[i][c] * flat[i]
DotCol(R, fb, c, i, acc) ==
  IF i > Len(R) THEN acc
  ELSE DotCol(R, fb, c, i + 1,
              acc + R[i][c] * fb[((i - 1) \div 3) + 1].x[((i - 1) % 3) + 1])

\* np.dot(R.T, np.reshape(force_blobs, 3*Nblobs)); one NaN makes every
\* component NaN
TorqueDot(R, fb) ==
  IF \E i \in 1..Len(fb) : fb[i].nan THEN NaNVec
  ELSE V(<<DotCol(R, fb, 1, 1, 0), DotCol(R, fb, 2, 1, 0), DotCol(R, fb, 3, 1, 0)>>)

\* faulty variant: the offset is never advanced
NextOffsetStuck(offset, b) == offset

\* offset += b.Nblobs
NextOffset(offset, b) == offset + b.Nblobs

RECURSIVE BodyLoop(_, _, _, _, _)
\* for k, b in enumerate(bodies): add force and torque of body k (k from 1)
BodyLoop(bs, fb, k, offset, ftb) ==
  IF k > Len(bs) THEN ftb
  ELSE LET b == bs[k]
           mine == Slice(fb, offset, offset + b.Nblobs)
           f == VAdd(ftb[2 * k - 1], PySum(mine, Zero3))
           t == VAdd(ftb[2 * k], TorqueDot(b.rot, mine))
       IN  BodyLoop(bs, fb, k + 1, NextOffset(offset, b),
                    [ftb EXCEPT ![2 * k - 1] = f, ![2 * k] = t])

\* bodies_external_force_torque(bodies, r_vectors)
bodies_external_force_torque(bs) == Zeros(2 * Len(bs))

\* force_torque_calculator_sort_by_bodies(bodies, r_vectors), with the module's
\* calc_blob_blob_forces set to the given implementation
force_torque_calculator_sort_by_bodies(bs, rv, implementation) ==
  IF Len(bs) = 0
    THEN [outcome |-> "IndexError", ftb |-> <<>>, force_blobs |-> <<>>]   \* bodies[0]
  ELSE LET blob_radius == bs[1].blob_radius
           fb1 == ArrAdd(Zeros(Len(rv)), calc_one_blob_forces(rv, blob_radius, BlobMass))
           fb2 == ArrAdd(fb1, set_blob_blob_forces(implementation, rv))
           ftb == BodyLoop(bs, fb2, 1, 0, Zeros(2 * Len(bs)))
       IN  [outcome |-> "returned",
            ftb |-> ArrAdd(ftb, bodies_external_force_torque(bs)),
            force_blobs |-> fb2]

\* the force on one blob of body b in force_torque_calculator_sort_by_bodies_
BlobForce_(b, blob, h) ==
  VAdd(V(<<0, 0, WallRepulsion(h - b.blob_radius)>>),
       V(<<0, 0, -(G * b.blob_masses[blob])>>))

RECURSIVE BodyLoop_(_, _, _, _, _)
\* the loop over bodies of force_torque_calculator_sort_by_bodies_
BodyLoop_(bs, rv, k, offset, ftb) ==
  IF k > Len(bs) THEN ftb
  ELSE LET b == bs[k]
           force_blobs == [blob \in 1..b.Nblobs |->
                             BlobForce_(b, blob, rv[offset + blob][3])]
           f == VAdd(ftb[2 * k - 1], PySum(force_blobs, Zero3))
           t == VAdd(ftb[2 * k], TorqueDot(b.rot, force_blobs))
       IN  BodyLoop_(bs, rv, k + 1, NextOffset(offset, b),
                     [ftb EXCEPT ![2 * k - 1] = f, ![2 * k] = t])

\* force_torque_calculator_sort_by_bodies_(bodies, r_vectors)
force_torque_calculator_sort_by_bodies_(bs, rv) ==
  [outcome |-> "returned", ftb |-> BodyLoop_(bs, rv, 1, 0, Zeros(2 * Len(bs))),
   force_blobs |-> <<>>]

NoForceCall == [op |-> "none", implementation |-> "", outcome |-> "none",
                ftb |-> <<>>, force_blobs |-> <<>>, pairs |-> <<>>]

CallSortByBodies(implementation) ==
  /\ LET res == force_torque_calculator_sort_by_bodies(bodies, r_vectors, implementation) IN
       fres' = [NoForceCall EXCEPT !.op = "force_torque_calculator_sort_by_bodies",
                                   !.implementation = implementation,
                                   !.outcome = res.outcome, !.ftb = res.ftb,
                                   !.force_blobs = res.force_blobs]
  /\ UNCHANGED <<bodies, r_vectors>>
  /\ UNCHANGED ivars

CallSortByBodies_ ==
  /\ LET res == force_torque_calculator_sort_by_bodies_(bodies, r_vectors) IN
       fres' = [NoForceCall EXCEPT !.op = "force_torque_calculator_sort_by_bodies_",
                                   !.outcome = res.outcome, !.ftb = res.ftb]
  /\ UNCHANGED <<bodies, r_vectors>>
  /\ UNCHANGED ivars

CallBlobBlobPython ==
  /\ LET res == calc_blob_blob_forces_python(r_vectors) IN
       fres' = [NoForceCall EXCEPT !.op = "calc_blob_blob_forces_python",
                                   !.outcome = "returned",
                                   !.force_blobs = res.force_blobs,
                                   !.pairs = res.pairs]
  /\ UNCHANGED <<bodies, r_vectors>>
  /\ UNCHANGED ivars

Init ==
  /\ phase = "new"
  /\ mobility = Unset
  /\ dim = Unset
  /\ scheme = Unset
  /\ current_time = Unset
  /\ last = NoCall
  /\ numSteps = 0
  /\ sumDt = 0
  /\ bodies = <<>>
  /\ r_vectors = <<>>
  /\ fres = NoForceCall

Next ==
  \/ phase = "new" /\ \E m \in Mobilities, s \in Schemes : Construct(m, s)
  \/ phase = "ok" /\ \E dt \in DtValues : TimeStep(dt)
  \/ phase = "ok" /\ \E force \in Forces : ApplyMobility(force)

Spec == Init /\ [][Next]_vars

InitForces ==
  /\ phase = "new"
  /\ mobility = Unset
  /\ dim = Unset
  /\ scheme = Unset
  /\ current_time = Unset
  /\ last = NoCall
  /\ numSteps = 0
  /\ sumDt = 0
  /\ bodies \in BodyLists
  /\ r_vectors \in [1..TotalBlobs(bodies) -> Positions]
  /\ fres = NoForceCall

NextForces ==
  \/ \E implementation \in {"None", "python"} : CallSortByBodies(implementation)
  \/ CallSortByBodies_
  \/ CallBlobBlobPython

SpecForces == InitForces /\ [][NextForces]_vars

----------------------------------------------------------------------------
(* Claims about ConstrainedIntegrator *)

\* how the documented error kinds show in this code
ConfigurationError == {"SystemExit", "NotImplementedError"}
DimensionError == {"IndexError"}
InvalidArgument == {"ValueError"}

\* C1: construction fails with a ConfigurationError exactly when the mobility
\* is not square or the scheme is not "EULER" / "RFD"; a failed construction
\* leaves no integrator on which a method is ever called, and a square
\* mobility with a recognized scheme gives an integrator with that scheme.
C1_ConstructionFailsIffInvalid ==
  /\ last.op = "__init__" =>
       LET nonSquare == \E k \in 1..Len(mobility) : Len(mobility[k]) # Len(mobility)
           badScheme == last.schemeArg \notin {"EULER", "RFD"}
       IN  /\ (nonSquare \/ badScheme) =>
                 /\ phase \in {"exited", "raised"}
                 /\ last.outcome \in ConfigurationError
           /\ ~(nonSquare \/ badScheme) =>
                 /\ phase = "ok"
                 /\ last.outcome = "returned"
                 /\ scheme = last.schemeArg
                 /\ dim = Len(mobility)
  /\ phase \in {"exited", "raised"} => last.op = "__init__"

\* a 2x3 mobility was refused
C1_Witness ==
  /\ phase = "exited"
  /\ last.outcome = "SystemExit"
  /\ Len(mobility) = 2
  /\ \A k \in 1..2 : Len(mobility[k]) = 3

\* C2 (as claimed): current_time is 0 after construction and equals the sum of
\* the dt of the TimeStep calls that returned (N*dt for N equal steps).
C2_TimeIsSumOfSteps ==
  phase = "ok" => current_time = sumDt

\* C5 (as claimed): TimeStep(dt) with dt <= 0 fails with DimensionError /
\* InvalidArgument and runs neither step routine.
C5_NonPositiveDtRejected ==
  (last.op = "TimeStep" /\ last.dt <= 0) =>
     /\ last.outcome \in DimensionError \cup InvalidArgument
     /\ last.ran = <<>>

\* C6 (as claimed): ApplyMobility(force) with len(force) # dim fails with
\* DimensionError and returns no velocity.
C6_WrongLengthRejected ==
  (last.op = "ApplyMobility" /\ Len(last.force) # dim) =>
     /\ last.outcome \in DimensionError
     /\ last.velocity = <<>>

\* C7 (as claimed): ApplyMobility(force) with len(force) = dim returns the
\* matrix-vector product mobility * force and changes nothing.
C7_ReturnsMatVec ==
  (last.op = "ApplyMobility" /\ Len(last.force) = dim) =>
     /\ last.outcome = "returned"
     /\ Len(last.velocity) = dim
     /\ \A j \in 1..dim :
          last.velocity[j] =
            (IF dim = 0 THEN 0
             ELSE IF dim = 1 THEN mobility[j][1] * last.force[1]
             ELSE IF dim = 2 THEN mobility[j][1] * last.force[1]
                                  + mobility[j][2] * last.force[2]
             ELSE mobility[j][1] * last.force[1] + mobility[j][2] * last.force[2]
                  + mobility[j][3] * last.force[3])

\* C8, the part that holds in every state: what the last TimeStep call ran
C8_DispatchInv ==
  /\ last.op = "TimeStep" =>
       /\ phase = "ok"
       /\ last.outcome = "returned"
       /\ Len(last.ran) = 1
       /\ scheme = "RFD" => last.ran[1] = "RFDTimeStep"
       /\ scheme = "EULER" => last.ran[1] = "EulerTimeStep"
  /\ phase = "ok" => scheme \in {"RFD", "EULER"}
  /\ phase = "exited" => last.op = "__init__"

\* C8: the scheme never changes once the integrator is constructed, every
\* TimeStep call runs exactly the one step routine its scheme selects, and
\* the sys.exit branch of TimeStep is never taken.
C8_SchemeFixedAndDispatched ==
  /\ []C8_DispatchInv
  /\ [][phase = "ok" => (phase' = "ok" /\ scheme' = scheme)]_vars

\* the second TimeStep call of an RFD integrator
C8_Witness ==
  /\ scheme = "RFD"
  /\ last.op = "TimeStep"
  /\ last.ran = <<"RFDTimeStep">>
  /\ numSteps = 2

----------------------------------------------------------------------------
(* Claims about the force functions *)

RECURSIVE SumVec(_, _)
\* the sum of the vectors f[j], j in S
SumVec(f, S) ==
  IF S = {} THEN Zero3
  ELSE LET j == CHOOSE x \in S : TRUE IN VAdd(f[j], SumVec(f, S \ {j}))

RECURSIVE SumInt(_, _)
\* the sum of the numbers f[j], j in S
SumInt(f, S) ==
  IF S = {} THEN 0
  ELSE LET j == CHOOSE x \in S : TRUE IN f[j] + SumInt(f, S \ {j})

\* the blobs of body k: the k-th of the consecutive ranges of sizes
\* bodies[1].Nblobs, bodies[2].Nblobs, ...
Start(k) == SumInt([i \in 1..(k - 1) |-> bodies[i].Nblobs], 1..(k - 1))
BlobsOf(k) == (Start(k) + 1)..(Start(k) + bodies[k].Nblobs)
BodyOf(j) == CHOOSE k \in 1..Len(bodies) : j \in BlobsOf(k)

Diff(a, b) == <<a[1] - b[1], a[2] - b[2], a[3] - b[3]>>

\* the total pair force on blob j: +f(r_i - r_j) for i > j, -f(r_j - r_i) for i < j
PairForceOn(j) ==
  LET N == Len(r_vectors)
      plus == [i \in (j + 1)..N |-> blob_blob_force(Diff(r_vectors[i], r_vectors[j]))]
      minus == [i \in 1..(j - 1) |-> blob_blob_force(Diff(r_vectors[j], r_vectors[i]))]
  IN  VSub(SumVec(plus, (j + 1)..N), SumVec(minus, 1..(j - 1)))

\* the force on blob j in each of the two functions
BlobForceIn(op, implementation, j) ==
  IF op = "force_torque_calculator_sort_by_bodies"
    THEN VAdd(V(<<0, 0, WallRepulsion(r_vectors[j][3] - bodies[1].blob_radius)
                        - G * BlobMass>>),
              IF implementation = "python" THEN PairForceOn(j) ELSE Zero3)
    ELSE LET b == bodies[BodyOf(j)] IN
         V(<<0, 0, WallRepulsion(r_vectors[j][3] - b.blob_radius)
                   - G * b.blob_masses[j - Start(BodyOf(j))]>>)

\* the torque on body k from the forces F on its own blobs only
TorqueOn(k, F) ==
  IF \E j \in BlobsOf(k) : F[j].nan THEN NaNVec
  ELSE LET comp(c) ==
             SumInt([j \in BlobsOf(k) |->
                       SumInt([c1 \in 1..3 |->
                                 bodies[k].rot[3 * (j - Start(k) - 1) + c1][c] * F[j].x[c1]],
                              1..3)],
                    BlobsOf(k))
       IN  V(<<comp(1), comp(2), comp(3)>>)

AllBlobs == 1..Len(r_vectors)
UnorderedPairs == {p \in AllBlobs \X AllBlobs : p[1] < p[2]}
NoTwoBlobsCoincide ==
  \A p \in UnorderedPairs : r_vectors[p[1]] # r_vectors[p[2]]

\* C10 (as claimed): for every input the forces returned by
\* calc_blob_blob_forces_python sum to zero over all blobs.
C10_ForcesSumToZero ==
  fres.op = "calc_blob_blob_forces_python" =>
     SumVec(fres.force_blobs, AllBlobs) = Zero3

\* C10 (amended): calc_blob_blob_forces_python visits every unordered pair of
\* distinct blobs exactly once and no other pair, adds the pair force to the
\* first blob and subtracts it from the second; with fewer than two blobs
\* every force is zero; and when no two blobs coincide (every pair force is
\* finite) the returned forces sum to zero.
C10_PairsOnceAndSumZeroIfDistinct ==
  fres.op = "calc_blob_blob_forces_python" =>
     /\ Len(fres.force_blobs) = Len(r_vectors)
     /\ \A p \in UnorderedPairs :
          Cardinality({n \in 1..Len(fres.pairs) : fres.pairs[n] = p}) = 1
     /\ \A n \in 1..Len(fres.pairs) : fres.pairs[n] \in UnorderedPairs
     /\ \A j \in AllBlobs : fres.force_blobs[j] = PairForceOn(j)
     /\ Len(r_vectors) < 2 => \A j \in AllBlobs : fres.force_blobs[j] = Zero3
     /\ NoTwoBlobsCoincide => SumVec(fres.force_blobs, AllBlobs) = Zero3

\* three blobs at three different places, each pushed by the other two
C10_Witness ==
  /\ fres.op = "calc_blob_blob_forces_python"
  /\ Len(r_vectors) = 3
  /\ NoTwoBlobsCoincide
  /\ Len(fres.pairs) = 3
  /\ \A j \in AllBlobs : ~fres.force_blobs[j].nan /\ fres.force_blobs[j] # Zero3
  /\ SumVec(fres.force_blobs, AllBlobs) = Zero3

====
